---- MODULE Spec2Model ----
(***************************************************************************)
(* Model of the hyper-utils request dispatch core: App (src/src/app.rs),   *)
(* Route / Router (src/src/routing.rs) and HttpError (src/src/error.rs).   *)
(*                                                                         *)
(* Strings (paths, patterns, parameter names and values) are sequences of  *)
(* one-character strings, so that splitting a path and cutting a captured  *)
(* value out of it are computed, not assumed.                              *)
(*                                                                         *)
(* Router wraps matchit::Router.  Its matching is modelled as the walk of  *)
(* the route tree the crate performs for the `:name` / `*name` syntax      *)
(* (matchit 0.7): below a common prefix a static child is tried first,     *)
(* then the `:name` child, then the `*name` child, with backtracking; a    *)
(* `:name` takes one non-empty segment, a `*name` takes the non-empty rest *)
(* of the path.  Captures are whole segments in the modelled tables.       *)
(***************************************************************************)
EXTENDS Integers, Sequences, FiniteSets, TLC

\* ------------------------------------------------------------------ bounds
\* longest request path, in characters
MaxPathLen == 5
\* number of serve calls that may be in flight together
MaxCalls == 2

\* ------------------------------------------------------------- strings
Slash == "/"
PathAlphabet == {"/", "a", "b"}

\* all strings over an alphabet of length exactly n
RECURSIVE StringsOfLen(_, _)
StringsOfLen(alphabet, n) ==
    IF n = 0 THEN {<<>>}
    ELSE {Append(s, c) : s \in StringsOfLen(alphabet, n - 1), c \in alphabet}

\* the request paths: Uri::path() always starts with a slash
Paths ==
    UNION {{<<Slash>> \o s : s \in StringsOfLen(PathAlphabet, n)} : n \in 0..(MaxPathLen - 1)}

\* number of '/'-separated segments after the leading slash
NumSegs(s) == Cardinality({j \in 1..Len(s) : s[j] = Slash})

\* position of the k-th slash of s
NthSlash(s, k) ==
    CHOOSE i \in 1..Len(s) :
        s[i] = Slash /\ Cardinality({j \in 1..i : s[j] = Slash}) = k

\* first and last character position of the k-th segment (empty when from > to)
SegFrom(s, k) == NthSlash(s, k) + 1
SegTo(s, k) == IF k = NumSegs(s) THEN Len(s) ELSE NthSlash(s, k + 1) - 1

\* the k-th segment of a path or of a pattern
Seg(s, k) == SubSeq(s, SegFrom(s, k), SegTo(s, k))

\* what a pattern segment is in the route tree
Kind(seg) ==
    IF seg # <<>> /\ seg[1] = ":" THEN "param"
    ELSE IF seg # <<>> /\ seg[1] = "*" THEN "catchall"
    ELSE "static"

\* the name a capture segment declares
CaptureName(seg) == Tail(seg)

\* ------------------------------------------------------ routing.rs: Route
\* the request methods; Method::as_str() of an extension method such as "get"
\* is its own text
Methods == {"GET", "POST", "get"}

\* Route::new: no handler for any method
RouteNew == [m \in {} |-> "none"]

\* an add that keeps the handler a method already has
RouteAddKeepsFirst(route, method, handler) ==
    [m \in (DOMAIN route) \cup {method} |-> IF m \in DOMAIN route THEN route[m] ELSE handler]

\* Route::add: BTreeMap::insert under MethodOrd(method)
RouteAdd(route, method, handler) ==
    [m \in (DOMAIN route) \cup {method} |-> IF m = method THEN handler ELSE route[m]]

\* routing::get / routing::post: Route::new().add(Method::GET / POST, handler)
route_get(handler) == RouteAdd(RouteNew, "GET", handler)
route_post(handler) == RouteAdd(RouteNew, "POST", handler)

\* Option<&Handler>
None == [some |-> FALSE]
Some(h) == [some |-> TRUE, value |-> h]

\* str::to_uppercase on the method names in use
ToUppercase(method) ==
    CASE method = "get" -> "GET"
      [] method = "purge" -> "PURGE"
      [] OTHER -> method

\* a Route::at that compares the uppercased names
RouteAtIgnoringCase(route, method) ==
    IF \E m \in DOMAIN route : ToUppercase(m) = ToUppercase(method)
    THEN Some(route[CHOOSE m \in DOMAIN route : ToUppercase(m) = ToUppercase(method)])
    ELSE None

\* Route::at: BTreeMap::get by MethodOrd, that is by Method::as_str()
RouteAt(route, method) ==
    IF method \in DOMAIN route THEN Some(route[method]) ELSE None

\* ----------------------------------------------------- routing.rs: Router
\* route tables an application may pass to App::routes
PatAB == <<"/", "a", "/", "b">>
PatAX == <<"/", "a", "/", ":", "x">>
PatAR == <<"/", "a", "/", "*", "r">>
PatXA == <<"/", ":", "x", "/", "a">>
PatXY == <<"/", ":", "x", "/", ":", "y">>
PatR == <<"/", "*", "r">>
PatA == <<"/", "a">>
PatASlash == <<"/", "a", "/">>
PatRA == <<"/", "*", "r", "/", "a">>
PatY == <<"/", ":", "y">>
PatAY == <<"/", "a", "/", ":", "y">>

Entry(path, route) == [path |-> path, route |-> route]

Tables == {
    \* a static pattern beside a capture at the same position
    << Entry(PatAB, route_get("h_ab")), Entry(PatAX, RouteAdd(route_get("h_ax"), "POST", "h_ax_post")) >>,
    \* a static pattern beside a trailing capture
    << Entry(PatAR, route_get("h_ar")), Entry(PatAB, route_post("h_ab")), Entry(PatASlash, route_get("h_a_")) >>,
    \* a static first segment that leads nowhere, beside captures
    << Entry(PatAB, route_get("h_ab")), Entry(PatXA, route_post("h_xa")), Entry(PatXY, route_get("h_xy")) >>,
    \* a capture of the whole path
    << Entry(PatR, route_get("h_r")), Entry(PatA, route_post("h_a")) >>,
    \* a `:name` beside a `*name` at the same position
    << Entry(PatAX, route_get("h_ax")), Entry(PatAR, route_get("h_ar")) >>,
    \* a `*name` that is not the last segment
    << Entry(PatAB, route_get("h_ab")), Entry(PatRA, route_get("h_ra")) >>,
    \* the same position captured under two names
    << Entry(PatXA, route_get("h_xa")), Entry(PatY, route_get("h_y")) >>,
    \* one shape of path given twice
    << Entry(PatAX, route_get("h_ax")), Entry(PatAY, route_post("h_ay")) >>
}

\* matchit insert: a `*name` must be the last segment of its pattern
InvalidCatchAll(pat) ==
    \E k \in 1..NumSegs(pat) : Kind(Seg(pat, k)) = "catchall" /\ k < NumSegs(pat)

\* matchit insert: two patterns cannot share the tree when they are the same
\* route, or when below a common prefix both continue with a capture that is
\* not the very same capture
Conflict(p, q) ==
    LET m == IF NumSegs(p) < NumSegs(q) THEN NumSegs(p) ELSE NumSegs(q)
        diff == {k \in 1..m : Seg(p, k) # Seg(q, k)}
    IN  IF diff = {}
        THEN NumSegs(p) = NumSegs(q)
        ELSE LET d == CHOOSE k \in diff : \A j \in diff : k <= j
             IN  Kind(Seg(p, d)) # "static" /\ Kind(Seg(q, d)) # "static"

\* an insert that refuses misplaced `*name` captures only
InsertFailsCatchAllOnly(table) ==
    \E i \in 1..Len(table) : InvalidCatchAll(table[i].path)

\* whether some inner.insert(route, value) of Router::new returns Err
InsertFails(table) ==
    \/ \E i \in 1..Len(table) : InvalidCatchAll(table[i].path)
    \/ \E i, j \in 1..Len(table) : i < j /\ Conflict(table[i].path, table[j].path)

\* Result of matchit's Router::at
NoMatch == [found |-> FALSE]
Match(i, params) == [found |-> TRUE, idx |-> i, params |-> params]

\* a capture list that keeps its first capture only
BindFirstOnly(params, name, value) ==
    IF DOMAIN params = {} THEN [n \in {name} |-> value] ELSE params

\* a capture list that stores a capture without its first character
BindDropsFirst(params, name, value) ==
    [n \in (DOMAIN params) \cup {name} |->
        IF n = name THEN (IF Len(value) > 1 THEN Tail(value) ELSE value) ELSE params[n]]

\* Params::push
Bind(params, name, value) ==
    [n \in (DOMAIN params) \cup {name} |-> IF n = name THEN value ELSE params[n]]

NoParams == [n \in {} |-> <<>>]

\* a `*name` that stops at the next slash, as a `:name` does
CatchAllValueOneSegment(path, k) == Seg(path, k)

\* a `*name` takes everything from the start of segment k to the end of the path
CatchAllValue(path, k) == SubSeq(path, SegFrom(path, k), Len(path))

\* a walk that tries the `:name` child before the static one
FirstFoundParamFirst(viaStatic, viaParam, viaCatchAll) ==
    IF viaParam.found THEN viaParam
    ELSE IF viaStatic.found THEN viaStatic
    ELSE viaCatchAll

\* the order in which the children of a node are tried
FirstFound(viaStatic, viaParam, viaCatchAll) ==
    IF viaStatic.found THEN viaStatic
    ELSE IF viaParam.found THEN viaParam
    ELSE viaCatchAll

\* the walk of the route tree: cands are the routes below the node reached
\* after k - 1 segments of the path
RECURSIVE Walk(_, _, _, _, _)
Walk(inner, cands, path, k, params) ==
    IF k > NumSegs(path)
    THEN LET ends == {i \in cands : NumSegs(inner[i].path) = k - 1}
         IN  IF ends = {} THEN NoMatch ELSE Match(CHOOSE i \in ends : TRUE, params)
    ELSE LET seg == Seg(path, k)
             here == {i \in cands : NumSegs(inner[i].path) >= k}
             st == {i \in here : /\ Kind(Seg(inner[i].path, k)) = "static"
                                 /\ Seg(inner[i].path, k) = seg}
             pm == {i \in here : Kind(Seg(inner[i].path, k)) = "param"}
             ca == {i \in here : Kind(Seg(inner[i].path, k)) = "catchall"}
             viaStatic == IF st = {} THEN NoMatch ELSE Walk(inner, st, path, k + 1, params)
             viaParam ==
                 IF pm = {} \/ seg = <<>> THEN NoMatch
                 ELSE LET nm == CaptureName(Seg(inner[CHOOSE i \in pm : TRUE].path, k))
                      IN  Walk(inner, pm, path, k + 1, Bind(params, nm, seg))
             viaCatchAll ==
                 IF ca = {} \/ SegFrom(path, k) > Len(path) THEN NoMatch
                 ELSE LET c == CHOOSE i \in ca : TRUE
                          nm == CaptureName(Seg(inner[c].path, k))
                      IN  Match(c, Bind(params, nm, CatchAllValue(path, k)))
         IN  FirstFound(viaStatic, viaParam, viaCatchAll)

\* a lookup that forgives a trailing slash
InnerAtTrimsSlash(inner, path) ==
    Walk(inner, 1..Len(inner),
         IF Len(path) > 1 /\ path[Len(path)] = Slash THEN SubSeq(path, 1, Len(path) - 1) ELSE path,
         1, NoParams)

\* matchit::Router::at as Router::at calls it
InnerAt(inner, path) == Walk(inner, 1..Len(inner), path, 1, NoParams)

\* HttpError::new
HttpError(status, body) == [status |-> status, body |-> body]

\* Body::empty()
EmptyBody == ""
NOT_FOUND == 404
METHOD_NOT_ALLOWED == 405

Ok(v) == [ok |-> TRUE, value |-> v]
Err(e) == [ok |-> FALSE, error |-> e]

\* an ok_or that passes the absent handler on
OkOrAbsent(opt, e) == IF opt.some THEN Ok(opt.value) ELSE Ok("absent")

\* Option::ok_or
OkOr(opt, e) == IF opt.some THEN Ok(opt.value) ELSE Err(e)

\* a Router::at that reports a missing method as a missing path
RouterAtNotFoundOnly(inner, path, method) ==
    LET route == InnerAt(inner, path)
    IN  IF ~route.found \/ ~RouteAt(inner[route.idx].route, method).some
        THEN Err(HttpError(NOT_FOUND, EmptyBody))
        ELSE Ok([params |-> route.params,
                 handler |-> RouteAt(inner[route.idx].route, method).value,
                 idx |-> route.idx])

\* Router::at; idx is the route of the table that matched, kept for the properties
RouterAt(inner, path, method) ==
    LET route == InnerAt(inner, path)
    IN  IF ~route.found
        THEN Err(HttpError(NOT_FOUND, EmptyBody))
        ELSE LET map == route.params
                 h == OkOr(RouteAt(inner[route.idx].route, method),
                           HttpError(METHOD_NOT_ALLOWED, EmptyBody))
             IN  IF h.ok
                 THEN Ok([params |-> map, handler |-> h.value, idx |-> route.idx])
                 ELSE h

\* ---------------------------------------------------------------- error.rs
\* StatusCode holds a code in 100..=999
StatusCodes == 100..999

\* a builder that takes the registered status classes only
ResponseBuilderStrict(status, body) ==
    IF status \in 100..599
    THEN Ok([status |-> status, body |-> body])
    ELSE Err("invalid status code")

\* Response::builder().status(status).body(body): the builder keeps an error
\* when the status does not convert into a StatusCode, and body() returns it
ResponseBuilder(status, body) ==
    IF status \in StatusCodes
    THEN Ok([status |-> status, body |-> body])
    ELSE Err("invalid status code")

\* a response that drops the body of the error
HttpErrorResponseNoBody(e) == ResponseBuilder(e.status, EmptyBody)

\* HttpError::response, before its unwrap()
HttpErrorResponse(e) == ResponseBuilder(e.status, e.body)

\* a conversion that keeps the error's description as the body
FromStatusErrorInBody(code, err) ==
    [error |-> HttpError(code, err), logged |-> <<err>>]

\* From<(StatusCode, E)> for HttpError: eprintln!("{}", err), then
\* HttpError::new(code, Body::empty()); logged is what went to stderr
FromStatusError(code, err) ==
    [error |-> HttpError(code, EmptyBody), logged |-> <<err>>]

\* ErrorHelper::status for Result<T, E>: map_err(|e| (status, e).into())
ResultStatus(res, code) ==
    IF res.ok
    THEN [value |-> res, logged |-> <<>>]
    ELSE LET converted == FromStatusError(code, res.error)
         IN  [value |-> Err(converted.error), logged |-> converted.logged]

\* ------------------------------------------------------- derive/src/lib.rs
\* parse_path: the args of a route, one per segment starting with ':' or '*'
ParsePathArgs(path) ==
    LET segs == [k \in 1..NumSegs(path) |-> Seg(path, k)]
        StartsWithCapture(seg) == seg # <<>> /\ seg[1] \in {":", "*"}
        captures == SelectSeq(segs, StartsWithCapture)
    IN  [k \in 1..Len(captures) |-> Tail(captures[k])]

\* ------------------------------------------------------------------ app.rs
VARIABLES
    phase,      \* "building" while the App is being built, "serving" once shared,
                \* "panicked" when Router::new panicked
    state,      \* App::state
    router,     \* App::router (the routes inserted into Router::inner)
    pre,        \* App::pre
    post,       \* App::post
    active,     \* the serve calls the host makes
    call,       \* per serve call: the position of its future and what it has seen
    started,    \* serve calls in the order they were made
    route,      \* a Route an application is building
    adds,       \* the Route::add calls made on it, in order
    lookup,     \* what the last Route::at on it returned
    stderr,     \* the lines written by eprintln!
    convs       \* the ErrorHelper::status calls made, in order

\* what the application does with Route and error values on their own
libVars == <<route, adds, lookup, stderr, convs>>

vars == <<phase, state, router, pre, post, active, call, started, libVars>>

Calls == 1..MaxCalls
Nil == [nil |-> TRUE]

\* no Route built, nothing converted
LibInit ==
    /\ route = RouteNew
    /\ adds = <<>>
    /\ lookup = Nil
    /\ stderr = <<>>
    /\ convs = <<>>

\* the connection address of a call
Addr(c) == <<"peer", c>>

\* requests the host hands to serve; with several calls in flight the
\* requests are drawn from a few paths only
ConcPaths == {<<"/", "a", "/", "a">>, <<"/", "b", "/", "b">>}
Request(method, path, body) == [method |-> method, path |-> path, body |-> body]
Requests(n) ==
    IF n = 1
    THEN {Request(m, p, "body") : m \in Methods, p \in Paths}
    ELSE {Request("GET", p, "body") : p \in ConcPaths}

\* what a hook or a handler written by the application may answer
Rewritten == Request("GET", PatAB, "rewritten")
Rejection == [status |-> 401, body |-> "denied"]
Success == [status |-> 200, body |-> "ok"]
HandlerErrors == {HttpError(502, EmptyBody), HttpError(999, "oops")}
HandlerResults == {Ok(Success)} \cup {Err(e) : e \in HandlerErrors}

\* outcomes of (self.pre)(req): App::new installs |req| Ok(req)
PreResults(hook, req) ==
    IF hook = "default" THEN {Ok(req)}
    ELSE {Ok(req), Ok(Rewritten), Err(Rejection)}

\* outcomes of (self.post)(resp): App::new installs |resp| resp
PostResults(hook, resp) ==
    IF hook = "default" THEN {resp}
    ELSE {resp, [resp EXCEPT !.body = "posted"]}

IdleCall ==
    [pc |-> "idle", addr |-> Nil, req |-> Nil, preOut |-> Nil, at |-> Nil,
     handler |-> Nil, hargs |-> Nil, hres |-> Nil, resp |-> Nil, out |-> Nil,
     trace |-> <<>>]

\* a serve that returns an error response without the post hook
PostHookCallSkipsErrors(cl, resp) ==
    IF resp.status >= 400
    THEN [cl EXCEPT !.pc = "done", !.resp = resp, !.out = resp]
    ELSE [cl EXCEPT !.pc = "post", !.resp = resp, !.trace = Append(@, "post")]

\* serve, line 96: (self.post)(resp) is called and awaited
PostHookCall(cl, resp) ==
    [cl EXCEPT !.pc = "post", !.resp = resp, !.trace = Append(@, "post")]

\* serve, line 91: .unwrap_or_else(|e| e.response()), then the post hook
UnwrapOrElse(cl, result) ==
    IF result.ok
    THEN PostHookCall(cl, result.value)
    ELSE LET r == HttpErrorResponse(result.error)
         IN  IF r.ok
             THEN PostHookCall([cl EXCEPT !.trace = Append(@, "map")], r.value)
             ELSE [cl EXCEPT !.pc = "panicked", !.trace = Append(@, "map")]

\* Ctx { addr, state, parts } and the body of req.into_parts()
HandlerArgs(st, addr, req, params) ==
    [addr |-> addr, state |-> st,
     parts |-> [method |-> req.method, path |-> req.path],
     body |-> req.body, params |-> params]

\* a router_fn that calls a handler of the table when the lookup failed
RouterFnCallsAnyway(cl, st, addr, req, inner) ==
    LET at == RouterAt(inner, req.path, req.method)
        looked == [cl EXCEPT !.at = at, !.trace = Append(@, "at")]
    IN  [looked EXCEPT !.pc = "handler",
                       !.handler = IF at.ok THEN Some(at.value.handler) ELSE Some("fallback"),
                       !.hargs = HandlerArgs(st, addr, req,
                                             IF at.ok THEN at.value.params ELSE NoParams),
                       !.trace = Append(@, "handler")]

\* router_fn up to the handler's await; the pair Router::at returns is taken by
\* its types, (ParamMap, handler)
RouterFn(cl, st, addr, req, inner) ==
    LET at == RouterAt(inner, req.path, req.method)
        looked == [cl EXCEPT !.at = at, !.trace = Append(@, "at")]
    IN  IF ~at.ok
        THEN UnwrapOrElse(looked, at)
        ELSE [looked EXCEPT !.pc = "handler",
                            !.handler = Some(at.value.handler),
                            !.hargs = HandlerArgs(st, addr, req, at.value.params),
                            !.trace = Append(@, "handler")]

\* a serve that routes the original request when the pre hook rejected
AfterPreRoutesRejected(cl, st, inner, preOut) ==
    LET got == [cl EXCEPT !.preOut = preOut, !.trace = Append(@, "pre.ret")]
    IN  RouterFn(got, st, cl.addr, IF preOut.ok THEN preOut.value ELSE cl.req, inner)

\* a serve that routes the request it was given, whatever the pre hook returned
AfterPreRoutesOriginal(cl, st, inner, preOut) ==
    LET got == [cl EXCEPT !.preOut = preOut, !.trace = Append(@, "pre.ret")]
    IN  IF preOut.ok
        THEN RouterFn(got, st, cl.addr, cl.req, inner)
        ELSE PostHookCall(got, preOut.error)

\* serve, lines 88-93: the match on the pre hook's result
AfterPre(cl, st, inner, preOut) ==
    LET got == [cl EXCEPT !.preOut = preOut, !.trace = Append(@, "pre.ret")]
    IN  IF preOut.ok
        THEN RouterFn(got, st, cl.addr, preOut.value, inner)
        ELSE PostHookCall(got, preOut.error)

Init ==
    /\ phase = "building"
    /\ state = "S"
    /\ router = <<>>
    /\ pre = "default"
    /\ post = "default"
    /\ active = {1}
    /\ call = [c \in Calls |-> IdleCall]
    /\ started = <<>>
    /\ LibInit

\* several serve calls in flight on one App
InitConc ==
    /\ phase = "building"
    /\ state = "S"
    /\ router = <<>>
    /\ pre = "default"
    /\ post = "default"
    /\ active = Calls
    /\ call = [c \in Calls |-> IdleCall]
    /\ started = <<>>
    /\ LibInit

\* App::routes: Router::new unwraps every insert
Routes(table) ==
    /\ phase = "building"
    /\ router = <<>>
    /\ IF InsertFails(table)
       THEN phase' = "panicked" /\ UNCHANGED router
       ELSE router' = table /\ UNCHANGED phase
    /\ UNCHANGED <<state, pre, post, active, call, started, libVars>>

\* App::pre
Pre ==
    /\ phase = "building"
    /\ pre = "default"
    /\ pre' = "custom"
    /\ UNCHANGED <<phase, state, router, post, active, call, started, libVars>>

\* App::post
Post ==
    /\ phase = "building"
    /\ post = "default"
    /\ post' = "custom"
    /\ UNCHANGED <<phase, state, router, pre, active, call, started, libVars>>

\* the host shares the built App and starts accepting connections
Share ==
    /\ phase = "building"
    /\ phase' = "serving"
    /\ UNCHANGED <<state, router, pre, post, active, call, started, libVars>>

\* serve is called: (self.pre)(req) is called and awaited
Serve(c) ==
    /\ phase = "serving"
    /\ c \in active
    /\ call[c].pc = "idle"
    /\ \E req \in Requests(Cardinality(active)) :
          call' = [call EXCEPT ![c] = [@ EXCEPT !.pc = "pre", !.addr = Addr(c),
                                                  !.req = req, !.trace = <<"pre">>]]
    /\ started' = Append(started, c)
    /\ UNCHANGED <<phase, state, router, pre, post, active, libVars>>

\* a serve whose pre hook is given the request of the call made last, as if
\* the calls shared one request slot
PreReturnsLatestRequest(c) ==
    /\ call[c].pc = "pre"
    /\ \E preOut \in PreResults(pre, call[started[Len(started)]].req) :
          call' = [call EXCEPT ![c] = AfterPre(@, state, router, preOut)]
    /\ UNCHANGED <<phase, state, router, pre, post, active, started, libVars>>

\* the pre hook's future completes; serve runs on to its next await
PreReturns(c) ==
    /\ call[c].pc = "pre"
    /\ \E preOut \in PreResults(pre, call[c].req) :
          call' = [call EXCEPT ![c] = AfterPre(@, state, router, preOut)]
    /\ UNCHANGED <<phase, state, router, pre, post, active, started, libVars>>

\* a serve that leaves the App without its state once a handler has run
HandlerReturnsTakesState(c) ==
    /\ call[c].pc = "handler"
    /\ \E result \in HandlerResults :
          call' = [call EXCEPT ![c] =
                      UnwrapOrElse([@ EXCEPT !.hres = result,
                                             !.trace = Append(@, "handler.ret")], result)]
    /\ state' = "moved"
    /\ UNCHANGED <<phase, router, pre, post, active, started, libVars>>

\* the handler's future completes; serve runs on to the post hook's await
HandlerReturns(c) ==
    /\ call[c].pc = "handler"
    /\ \E result \in HandlerResults :
          call' = [call EXCEPT ![c] =
                      UnwrapOrElse([@ EXCEPT !.hres = result,
                                             !.trace = Append(@, "handler.ret")], result)]
    /\ UNCHANGED <<phase, state, router, pre, post, active, started, libVars>>

\* a serve that returns only once the calls made before it have returned
PostReturnsInTurn(c) ==
    /\ call[c].pc = "post"
    /\ \A i \in 1..Len(started) :
          (\E j \in 1..Len(started) : i < j /\ started[j] = c) => call[started[i]].pc = "done"
    /\ \E resp \in PostResults(post, call[c].resp) :
          call' = [call EXCEPT ![c] = [@ EXCEPT !.pc = "done", !.out = resp,
                                                  !.trace = Append(@, "post.ret")]]
    /\ UNCHANGED <<phase, state, router, pre, post, active, started, libVars>>

\* the post hook's future completes; serve returns its value
PostReturns(c) ==
    /\ call[c].pc = "post"
    /\ \E resp \in PostResults(post, call[c].resp) :
          call' = [call EXCEPT ![c] = [@ EXCEPT !.pc = "done", !.out = resp,
                                                  !.trace = Append(@, "post.ret")]]
    /\ UNCHANGED <<phase, state, router, pre, post, active, started, libVars>>

Next ==
    \/ \E table \in Tables : Routes(table)
    \/ Pre
    \/ Post
    \/ Share
    \/ \E c \in Calls : Serve(c)
    \/ \E c \in Calls : PreReturns(c)
    \/ \E c \in Calls : HandlerReturns(c)
    \/ \E c \in Calls : PostReturns(c)

Spec == Init /\ [][Next]_vars

SpecConc == InitConc /\ [][Next]_vars

\* ------------------------------------------- serve calls whose awaits end
\* the table of an App that has been built and shared, with both hooks set
LiveTable == << Entry(PatAB, route_get("h_ab")), Entry(PatXA, route_post("h_xa")),
                Entry(PatXY, route_get("h_xy")) >>

InitLive ==
    /\ phase = "serving"
    /\ state = "S"
    /\ router = LiveTable
    /\ pre = "custom"
    /\ post = "custom"
    /\ active = Calls
    /\ call = [c \in Calls |-> IdleCall]
    /\ started = <<>>
    /\ LibInit

\* the steps of the serve calls
NextServe ==
    \/ \E c \in Calls : Serve(c)
    \/ \E c \in Calls : PreReturns(c)
    \/ \E c \in Calls : HandlerReturns(c)
    \/ \E c \in Calls : PostReturns(c)

\* the call whose hooks and handler may never complete
Stalling == 1

\* the hooks and the handler of every other call complete once awaited.
\* PreReturns(c) is enabled exactly while call c awaits its pre hook and
\* takes the call out of that await, so weak fairness of PreReturns(c) is
\* that the call does not await its pre hook forever.
Completing ==
    \A c \in Calls \ {Stalling} :
        /\ []<>(call[c].pc # "pre")
        /\ WF_vars(HandlerReturns(c))
        /\ WF_vars(PostReturns(c))

SpecLive == InitLive /\ [][NextServe]_vars /\ Completing

\* ---------------------------------------------- a Route built on its own
\* Route::add calls on one Route
MaxAdds == 3

\* the methods an application registers: standard verbs and extension methods
\* (hyper keeps the bytes of an extension method as they are)
AddMethods == {"GET", "get", "PURGE"}
\* the methods looked up
AtMethods == AddMethods \cup {"POST", "purge"}
RouteHandlers == {"h1", "h2"}

\* the state of the App as constructed, left alone
AppInit ==
    /\ phase = "building"
    /\ state = "S"
    /\ router = <<>>
    /\ pre = "default"
    /\ post = "default"
    /\ active = {1}
    /\ call = [c \in Calls |-> IdleCall]
    /\ started = <<>>

appVars == <<phase, state, router, pre, post, active, call, started>>

InitRoute == AppInit /\ LibInit

\* route = route.add(method, handler), the shortcuts get/post/... included
Add(method, handler) ==
    /\ Len(adds) < MaxAdds
    /\ route' = RouteAdd(route, method, handler)
    /\ adds' = Append(adds, [method |-> method, handler |-> handler])
    /\ lookup' = Nil
    /\ UNCHANGED <<appVars, stderr, convs>>

\* route.at(method)
At(method) ==
    /\ lookup' = [method |-> method, found |-> RouteAt(route, method)]
    /\ UNCHANGED <<appVars, route, adds, stderr, convs>>

NextRoute ==
    \/ \E method \in AddMethods, handler \in RouteHandlers : Add(method, handler)
    \/ \E method \in AtMethods : At(method)

SpecRoute == InitRoute /\ [][NextRoute]_vars

\* ------------------------------------- errors converted in a handler's body
\* ErrorHelper::status calls made
MaxConversions == 2

\* the codes of unexpected(), bad_request() and bad_gateway()
HelperCodes == {500, 400, 502}
\* Display of the underlying errors
ErrorTexts == {"connection refused", "timed out"}
\* the Result<T, E> values the helper is called on
HelperInputs == {Ok("value")} \cup {Err(text) : text \in ErrorTexts}

InitError == AppInit /\ LibInit

\* res.status(code) in a handler
Status(code, res) ==
    /\ Len(convs) < MaxConversions
    /\ LET r == ResultStatus(res, code)
       IN  /\ convs' = Append(convs, [code |-> code, res |-> res, out |-> r.value, resp |-> Nil])
           /\ stderr' = stderr \o r.logged
    /\ UNCHANGED <<appVars, route, adds, lookup>>

\* the handler returned the Err with `?`; serve, line 91, maps it with
\* HttpError::response
Respond(i) ==
    /\ i \in 1..Len(convs)
    /\ ~convs[i].out.ok
    /\ convs[i].resp = Nil
    /\ convs' = [convs EXCEPT ![i].resp = HttpErrorResponse(convs[i].out.error)]
    /\ UNCHANGED <<appVars, route, adds, lookup, stderr>>

NextError ==
    \/ \E code \in HelperCodes, res \in HelperInputs : Status(code, res)
    \/ \E i \in 1..MaxConversions : Respond(i)

SpecError == InitError /\ [][NextError]_vars

\* ------------------------------------------------------------ properties
\* how often an event occurs in a trace
Count(trace, e) == Cardinality({i \in DOMAIN trace : trace[i] = e})

\* a response with the status and the body of an HttpError
AsResponse(e) == [status |-> e.status, body |-> e.body]

\* the response the path taken by a call has produced for the post hook
Produced(cl) ==
    IF ~cl.preOut.ok THEN cl.preOut.error
    ELSE IF ~cl.at.ok THEN AsResponse(cl.at.error)
    ELSE IF cl.hres.ok THEN cl.hres.value
    ELSE AsResponse(cl.hres.error)

\* C1: every serve call that completes has invoked the post hook exactly once,
\* with the response its path produced and after that response was produced,
\* whether the handler returned Ok or Err, the router failed or the pre hook
\* rejected; no call invokes the post hook twice.
C1_PostHookExactlyOnce ==
    \A c \in Calls :
        /\ Count(call[c].trace, "post") <= 1
        /\ call[c].pc = "done" =>
              /\ Count(call[c].trace, "post") = 1
              /\ call[c].resp = Produced(call[c])
              /\ call[c].out \in PostResults(post, call[c].resp)
              /\ \A i \in DOMAIN call[c].trace :
                    call[c].trace[i] = "post" =>
                        /\ i = Len(call[c].trace) - 1
                        /\ call[c].trace[i + 1] = "post.ret"

\* a completed call whose lookup failed went through the post hook
C1_Witness ==
    \E c \in Calls :
        /\ call[c].pc = "done"
        /\ call[c].at # Nil /\ ~call[c].at.ok
        /\ Count(call[c].trace, "post") = 1
        /\ post = "custom"

\* C2: when the pre hook rejects, Router::at is not consulted and no handler is
\* invoked in that call, and the rejection is the response given to the post hook.
C2_RejectionBypassesRouting ==
    \A c \in Calls :
        (call[c].preOut # Nil /\ ~call[c].preOut.ok) =>
            /\ Count(call[c].trace, "at") = 0
            /\ Count(call[c].trace, "handler") = 0
            /\ call[c].at = Nil
            /\ call[c].handler = Nil
            /\ call[c].hargs = Nil
            /\ call[c].resp = call[c].preOut.error

\* a completed call whose pre hook rejected a request the router would serve
C2_Witness ==
    \E c \in Calls :
        /\ call[c].pc = "done"
        /\ call[c].preOut = Err(Rejection)
        /\ RouterAt(router, call[c].req.path, call[c].req.method).ok

\* the complete traces of a serve call
FullTraces == {
    <<"pre", "pre.ret", "post", "post.ret">>,
    <<"pre", "pre.ret", "at", "map", "post", "post.ret">>,
    <<"pre", "pre.ret", "at", "handler", "handler.ret", "post", "post.ret">>,
    <<"pre", "pre.ret", "at", "handler", "handler.ret", "map", "post", "post.ret">> }

IsPrefix(t, full) == Len(t) <= Len(full) /\ t = SubSeq(full, 1, Len(t))

\* C3: within a serve call the steps run in the order pre hook, Router::at,
\* handler, HttpError::response, post hook, each after the one before has
\* finished: the pre hook once and first, a handler only after a lookup that
\* succeeded, the error mapping only after a failure; calls of different
\* requests complete in any order.
C3_DispatchSequence ==
    \A c \in Calls :
        /\ \E full \in FullTraces : IsPrefix(call[c].trace, full)
        /\ call[c].pc # "idle" => call[c].trace[1] = "pre"
        /\ Count(call[c].trace, "handler") = 1 => call[c].at # Nil /\ call[c].at.ok
        /\ Count(call[c].trace, "map") = 1 =>
              \/ call[c].at # Nil /\ ~call[c].at.ok
              \/ call[c].hres # Nil /\ ~call[c].hres.ok
        /\ call[c].pc = "pre" <=> call[c].trace = <<"pre">>
        /\ call[c].pc = "handler" <=> (call[c].trace # <<>> /\ call[c].trace[Len(call[c].trace)] = "handler")
        /\ call[c].pc = "post" <=> (call[c].trace # <<>> /\ call[c].trace[Len(call[c].trace)] = "post")
        /\ call[c].pc = "done" <=> call[c].trace \in FullTraces

\* the call made second has completed while the call made first still awaits
\* its pre hook
C3_Witness ==
    /\ Len(started) = 2
    /\ call[started[2]].pc = "done"
    /\ call[started[2]].hres # Nil
    /\ call[started[1]].pc = "pre"

\* whether segment k of a path fits segment k of a pattern
SegMatches(pat, path, k) ==
    IF Kind(Seg(pat, k)) = "static"
    THEN Seg(path, k) = Seg(pat, k)
    ELSE Seg(path, k) # <<>>

\* whether a path has the segments before the last one of a pattern
SharesPrefix(pat, path) ==
    /\ NumSegs(path) >= NumSegs(pat)
    /\ \A k \in 1..(NumSegs(pat) - 1) : SegMatches(pat, path, k)

\* what follows the n-th slash of a path
AfterSlash(path, n) == SubSeq(path, NthSlash(path, n) + 1, Len(path))

EndsInCatchAll(pat) == Kind(Seg(pat, NumSegs(pat))) = "catchall"

\* whether a pattern, taken alone, matches a path
PatternMatches(pat, path) ==
    IF EndsInCatchAll(pat)
    THEN SharesPrefix(pat, path) /\ AfterSlash(path, NumSegs(pat)) # <<>>
    ELSE /\ NumSegs(path) = NumSegs(pat)
         /\ \A k \in 1..NumSegs(pat) : SegMatches(pat, path, k)

\* the routes of the router whose pattern matches a path
Matching(path) == {i \in 1..Len(router) : PatternMatches(router[i].path, path)}

\* literal before `:name` before `*name`
Rank(seg) == IF Kind(seg) = "static" THEN 0 ELSE IF Kind(seg) = "param" THEN 1 ELSE 2

\* whether p comes before q at the first segment where they differ
Outranks(p, q) ==
    LET m == IF NumSegs(p) < NumSegs(q) THEN NumSegs(p) ELSE NumSegs(q)
        diff == {k \in 1..m : Seg(p, k) # Seg(q, k)}
    IN  /\ diff # {}
        /\ LET d == CHOOSE k \in diff : \A j \in diff : k <= j
           IN  Rank(Seg(p, d)) < Rank(Seg(q, d))

\* the matching routes that come before every other matching route
Preferred(path) ==
    {i \in Matching(path) :
        \A j \in Matching(path) \ {i} : Outranks(router[i].path, router[j].path)}

\* the request a call has routed
Routed(c) == call[c].preOut.value

\* C4: Router::at fails with 404 and an empty body exactly when no registered
\* pattern matches the path, and with 405 and an empty body exactly when the
\* pattern selected for the path has no handler for the method; serve answers
\* the failure with that status and an empty body and invokes no handler.
C4_NotFoundAndMethodNotAllowed ==
    \A c \in Calls :
        call[c].at # Nil =>
            LET at == call[c].at
                rq == Routed(c)
                notFound == ~at.ok /\ at.error = HttpError(404, "")
                notAllowed == ~at.ok /\ at.error = HttpError(405, "")
            IN  /\ notFound <=> Matching(rq.path) = {}
                /\ notAllowed <=>
                      /\ Matching(rq.path) # {}
                      /\ \E i \in Preferred(rq.path) : rq.method \notin DOMAIN router[i].route
                /\ ~at.ok =>
                      /\ notFound \/ notAllowed
                      /\ call[c].handler = Nil
                      /\ Count(call[c].trace, "handler") = 0
                      /\ call[c].resp = [status |-> at.error.status, body |-> ""]

\* a completed call answered 405 although another pattern that matches the
\* path has a handler for the method
C4_Witness ==
    \E c \in Calls :
        /\ call[c].pc = "done"
        /\ call[c].at = Err(HttpError(405, ""))
        /\ call[c].resp = [status |-> 405, body |-> ""]
        /\ \E j \in Matching(Routed(c).path) : Routed(c).method \in DOMAIN router[j].route

\* bodies an HttpError may carry
Bodies == {EmptyBody, "oops"}

\* C5: serve never fails: every Err(HttpError) of the lookup or of the handler
\* becomes a response through HttpError::response, which succeeds for every
\* status code and body, so every call that meets a failure goes on to the
\* post hook with a response.
C5_FailuresBecomeResponses ==
    /\ \A c \in Calls :
          /\ call[c].pc # "panicked"
          /\ call[c].pc = "done" => call[c].out # Nil /\ call[c].out.status \in StatusCodes
          /\ (\/ call[c].at # Nil /\ ~call[c].at.ok
              \/ call[c].hres # Nil /\ ~call[c].hres.ok) =>
                /\ call[c].pc \in {"post", "done"}
                /\ Count(call[c].trace, "map") = 1
                /\ call[c].resp # Nil
                /\ call[c].resp.status \in StatusCodes
    \* the conversion alone, for every HttpError
    /\ phase = "building" =>
          \A st \in StatusCodes, b \in Bodies : HttpErrorResponse(HttpError(st, b)).ok

\* a completed call whose handler failed with the largest status code
C5_Witness ==
    \E c \in Calls :
        /\ call[c].pc = "done"
        /\ call[c].hres = Err(HttpError(999, "oops"))
        /\ call[c].out.status = 999

\* C6: when the handler returns Err(HttpError{status, body}) the post hook
\* receives a response with exactly that status and body; a call invokes its
\* handler at most once and consults the router at most once.
C6_HandlerErrorAsIs ==
    \A c \in Calls :
        /\ Count(call[c].trace, "handler") <= 1
        /\ Count(call[c].trace, "at") <= 1
        /\ (call[c].hres # Nil /\ ~call[c].hres.ok) =>
              /\ call[c].resp = [status |-> call[c].hres.error.status,
                                 body |-> call[c].hres.error.body]
              /\ Count(call[c].trace, "handler") = 1

\* the post hook was given the status and the body of a handler's error
C6_Witness ==
    \E c \in Calls :
        /\ call[c].pc = "post"
        /\ call[c].hres = Err(HttpError(999, "oops"))
        /\ call[c].resp = [status |-> 999, body |-> "oops"]

\* C7: Router::at returns either a handler registered in the table for the
\* method, with a ParamMap, or one of the failures NotFound and
\* MethodNotAllowed; never both and never neither.
C7_OneOutcome ==
    \A c \in Calls :
        call[c].at # Nil =>
            LET at == call[c].at
                hasHandler ==
                    /\ at.ok
                    /\ "value" \in DOMAIN at
                    /\ \E i \in 1..Len(router) :
                          /\ Routed(c).method \in DOMAIN router[i].route
                          /\ router[i].route[Routed(c).method] = at.value.handler
                hasFailure ==
                    /\ ~at.ok
                    /\ "error" \in DOMAIN at
                    /\ at.error.status \in {NOT_FOUND, METHOD_NOT_ALLOWED}
            IN  /\ hasHandler \/ hasFailure
                /\ ~(hasHandler /\ hasFailure)
                /\ hasHandler => "error" \notin DOMAIN at
                /\ hasFailure => "value" \notin DOMAIN at

\* a lookup that returned a handler together with a capture
C7_Witness ==
    \E c \in Calls :
        /\ call[c].at # Nil
        /\ call[c].at.ok
        /\ call[c].at.value.handler = "h_ax_post"
        /\ DOMAIN call[c].at.value.params = {<<"x">>}

\* the elements of a sequence
Range(seq) == {seq[i] : i \in DOMAIN seq}

\* C8: the keys of the ParamMap a handler receives are exactly the names the
\* `:name` and `*name` segments of its pattern declare, so that the lookups the
\* routes macro generates for these names all find a value.
C8_ParamKeysAreDeclaredNames ==
    \A c \in Calls :
        call[c].hargs # Nil =>
            LET pat == router[call[c].at.value.idx].path
            IN  /\ PatternMatches(pat, Routed(c).path)
                /\ call[c].handler = Some(router[call[c].at.value.idx].route[Routed(c).method])
                /\ DOMAIN call[c].hargs.params = Range(ParsePathArgs(pat))
                /\ \A k \in DOMAIN ParsePathArgs(pat) :
                      ParsePathArgs(pat)[k] \in DOMAIN call[c].hargs.params

\* a handler of a pattern with two captures was given both
C8_Witness ==
    \E c \in Calls :
        /\ call[c].hargs # Nil
        /\ router[call[c].at.value.idx].path = PatXY
        /\ DOMAIN call[c].hargs.params = {<<"x">>, <<"y">>}

\* C9: when several registered patterns match a path, the one selected is the
\* one that comes first at the first segment where they differ, a literal
\* before a `:name` before a `*name`; with /a/b and /a/:x registered, /a/b goes
\* to the handler of /a/b with an empty ParamMap.
C9_Precedence ==
    \A c \in Calls :
        call[c].at # Nil =>
            LET path == Routed(c).path
                r == InnerAt(router, path)
            IN  /\ r.found <=> Matching(path) # {}
                /\ r.found =>
                      /\ Preferred(path) = {r.idx}
                      /\ call[c].at.ok => call[c].at.value.idx = r.idx
                /\ (/\ path = PatAB
                    /\ \E i, j \in 1..Len(router) :
                          router[i].path = PatAB /\ router[j].path = PatAX) =>
                      /\ r.found /\ router[r.idx].path = PatAB /\ r.params = NoParams
                      /\ call[c].hargs # Nil => call[c].hargs.params = NoParams

\* /a/b was dispatched to the handler of /a/b, with no parameter, although
\* /a/:x is registered too
C9_Witness ==
    \E c \in Calls :
        /\ call[c].hargs # Nil
        /\ Routed(c).path = PatAB
        /\ \E j \in 1..Len(router) : router[j].path = PatAX
        /\ call[c].handler = Some("h_ab")
        /\ call[c].hargs.params = NoParams
        /\ Cardinality(Matching(PatAB)) = 2

\* the routes whose pattern ends in a `*name` and whose prefix a path shares
CatchAllsSharing(path) ==
    {i \in 1..Len(router) : EndsInCatchAll(router[i].path) /\ SharesPrefix(router[i].path, path)}

\* the name of the trailing capture of a pattern
TrailingName(pat) == CaptureName(Seg(pat, NumSegs(pat)))

\* C10 as stated: for every pattern ending in `*name`, the lookup of any path
\* sharing the pattern's prefix succeeds and binds name to the whole remainder
\* of the path after the prefix.
C10_AsStated ==
    \A c \in Calls :
        call[c].at # Nil =>
            \A i \in CatchAllsSharing(Routed(c).path) :
                LET path == Routed(c).path
                    r == InnerAt(router, path)
                    name == TrailingName(router[i].path)
                IN  /\ r.found
                    /\ name \in DOMAIN r.params
                    /\ r.params[name] = AfterSlash(path, NumSegs(router[i].path))

\* C10: for every pattern ending in `*name`, the lookup of a path made of the
\* pattern's prefix and a non-empty remainder finds a route, and when that
\* pattern is the one selected the ParamMap binds name to the whole remainder,
\* slashes included; with an empty remainder the pattern is not selected.
C10_CatchAllTakesRemainder ==
    \A c \in Calls :
        call[c].at # Nil =>
            \A i \in CatchAllsSharing(Routed(c).path) :
                LET path == Routed(c).path
                    r == InnerAt(router, path)
                    name == TrailingName(router[i].path)
                    rest == AfterSlash(path, NumSegs(router[i].path))
                IN  /\ rest # <<>> => r.found
                    /\ rest = <<>> => ~(r.found /\ r.idx = i)
                    /\ (r.found /\ r.idx = i) =>
                          /\ DOMAIN r.params = Range(ParsePathArgs(router[i].path))
                          /\ r.params[name] = rest
                          /\ SubSeq(path, 1, Len(path) - Len(r.params[name])) \o r.params[name] = path
                          /\ call[c].hargs # Nil => call[c].hargs.params[name] = rest

\* a handler received a remainder that holds a slash
C10_Witness ==
    \E c \in Calls :
        /\ call[c].hargs # Nil
        /\ router[call[c].at.value.idx].path = PatAR
        /\ call[c].hargs.params = [n \in {<<"r">>} |-> <<"b", "/">>]
        /\ Routed(c).path = <<"/", "a", "/", "b", "/">>

\* the positions of the `:name` segments of a pattern
ParamPositions(pat) == {k \in 1..NumSegs(pat) : Kind(Seg(pat, k)) = "param"}

AllStatic(pat) == \A k \in 1..NumSegs(pat) : Kind(Seg(pat, k)) = "static"

\* C12: a pattern made of static segments only is the one selected for a path
\* exactly when the path is the pattern string; a path with a segment or a
\* trailing slash more or less is NotFound unless another pattern matches it.
C12_StaticMatchesExactly ==
    \A c \in Calls :
        call[c].at # Nil =>
            LET path == Routed(c).path
                r == InnerAt(router, path)
            IN  \A i \in 1..Len(router) :
                    AllStatic(router[i].path) =>
                        /\ (r.found /\ r.idx = i) <=> path = router[i].path
                        /\ (r.found /\ r.idx = i) => r.params = NoParams
                        /\ (path # router[i].path /\ Matching(path) \ {i} = {}) =>
                              call[c].at = Err(HttpError(NOT_FOUND, EmptyBody))

\* /a was answered 404 by a router that has /a/
C12_Witness ==
    \E c \in Calls :
        /\ call[c].pc = "done"
        /\ call[c].at = Err(HttpError(NOT_FOUND, EmptyBody))
        /\ Routed(c).path = PatA
        /\ \E i \in 1..Len(router) : router[i].path = PatASlash

\* the add calls made for a method
AddsOf(method) == {i \in 1..Len(adds) : adds[i].method = method}

\* the last of a non-empty set of positions
Last(S) == CHOOSE i \in S : \A j \in S : j <= i

\* C13 as stated: a handler registered under a method is found by Route::at
\* for a request method that differs from it only in letter case.
C13_AsStated ==
    lookup # Nil =>
        \A m \in DOMAIN route :
            ToUppercase(m) = ToUppercase(lookup.method) => lookup.found.some

\* C13: Route::at finds a handler exactly when one was added under a method
\* whose name equals the request method character for character, and then it
\* is that handler: a name differing in letter case finds nothing, no method
\* stands for the others, and an extension method is kept as a key like GET.
C13_MethodsCompareExactly ==
    /\ \A i \in 1..Len(adds) : adds[i].method \in DOMAIN route
    /\ lookup # Nil =>
          /\ lookup.found.some <=> AddsOf(lookup.method) # {}
          /\ lookup.found.some => lookup.found.value = route[lookup.method]
          /\ lookup.method \notin DOMAIN route => lookup.found = None

\* with GET and PURGE registered, at(get) returned None
C13_Witness ==
    /\ DOMAIN route = {"GET", "PURGE"}
    /\ lookup = [method |-> "get", found |-> None]

\* C14: after any sequence of add calls the Route holds, for each method
\* added, one handler, that of the last add for the method, whatever was
\* added for other methods before or after; it holds nothing else.
C14_LastAddWins ==
    /\ DOMAIN route = {adds[i].method : i \in 1..Len(adds)}
    /\ \A m \in DOMAIN route : route[m] = adds[Last(AddsOf(m))].handler

\* GET was added twice with another method in between
C14_Witness ==
    /\ adds = << [method |-> "GET", handler |-> "h1"],
                 [method |-> "PURGE", handler |-> "h1"],
                 [method |-> "GET", handler |-> "h2"] >>
    /\ route["GET"] = "h2"
    /\ route["PURGE"] = "h1"

\* two patterns that match one path with neither coming before the other
Ambiguous(p, q) ==
    \E path \in Paths :
        /\ PatternMatches(p, path)
        /\ PatternMatches(q, path)
        /\ ~Outranks(p, q)
        /\ ~Outranks(q, p)

\* a `*name` before the last segment
MisplacedCatchAll(pat) ==
    \E k \in 1..(NumSegs(pat) - 1) : Seg(pat, k) # <<>> /\ Head(Seg(pat, k)) = "*"

\* the tables Router::new is to refuse
Malformed(table) ==
    \/ \E i \in 1..Len(table) : MisplacedCatchAll(table[i].path)
    \/ \E i, j \in 1..Len(table) : i < j /\ Ambiguous(table[i].path, table[j].path)

MalformedTables == {table \in Tables : Malformed(table)}

\* what holds of the router while nothing has been served yet, and of the
\* calls at any time
BuiltWellFormed ==
    /\ started = <<>> => router \notin MalformedTables
    /\ phase = "panicked" =>
          /\ router = <<>>
          /\ \A c \in Calls : call[c].pc = "idle"
    /\ \A c \in Calls :
          call[c].pc # "idle" => phase = "serving" /\ call[c].pc # "panicked"

\* C15: a table with two ambiguously colliding patterns, or with a `*name`
\* before the last segment, never becomes the router of an App: App::routes
\* panics and the App is never served; the router an App is served with is
\* neither ambiguous nor malformed, it stays the same through every serve
\* call, and no serve call panics.
C15_MalformedTablesNeverBuilt ==
    /\ []BuiltWellFormed
    /\ [][phase = "serving" => router' = router]_vars

\* Router::new panicked on one of the tables, and some table is malformed
C15_Witness ==
    /\ phase = "panicked"
    /\ router = <<>>
    /\ MalformedTables # {}

\* whether v occurs in s as a run of consecutive characters
IsSubstring(v, s) ==
    \E i \in 1..(Len(s) + 1) : i + Len(v) - 1 <= Len(s) /\ SubSeq(s, i, i + Len(v) - 1) = v

\* C16: with several serve calls in flight, the handler of each call is
\* invoked with the address of its own connection, the head and body of the
\* request its own pre hook returned, and the ParamMap that Router::at gives
\* for that request taken alone, each value of which is a piece of its own
\* path; what it was invoked with stays what the call holds.
C16_CallsDoNotInterfere ==
    \A c \in Calls :
        call[c].hargs # Nil =>
            LET req == Routed(c)
            IN  /\ req \in {call[c].req, Rewritten}
                /\ call[c].at.ok
                /\ call[c].hargs.params = call[c].at.value.params
                /\ call[c].hargs.addr = Addr(c)
                /\ call[c].hargs.parts = [method |-> req.method, path |-> req.path]
                /\ call[c].hargs.body = req.body
                /\ call[c].pc = "handler" =>
                      /\ call[c].at = RouterAt(router, req.path, req.method)
                      /\ \A n \in DOMAIN call[c].hargs.params :
                            IsSubstring(call[c].hargs.params[n], req.path)

\* two handlers are running together, each with its own value for one name
C16_Witness ==
    \E c, d \in Calls :
        /\ c # d
        /\ call[c].pc = "handler"
        /\ call[d].pc = "handler"
        /\ \E n \in DOMAIN call[c].hargs.params :
              /\ n \in DOMAIN call[d].hargs.params
              /\ call[c].hargs.params[n] # call[d].hargs.params[n]

\* whether a conversion was that of an error
OfError(cv) == ~cv.res.ok

\* the descriptions of the errors converted, in order
Descriptions ==
    LET errs == SelectSeq(convs, OfError)
    IN  [i \in 1..Len(errs) |-> errs[i].res.error]

\* C17: each conversion of a (status code, error) pair writes the error's
\* description to stderr once and yields an HttpError with that status and
\* an empty body; the response made from it has that status and an empty
\* body, so none of the error's text; an Ok value is passed on, unlogged.
C17_LoggedOnceEmptyBody ==
    /\ stderr = Descriptions
    /\ \A i \in 1..Len(convs) :
          IF convs[i].res.ok
          THEN convs[i].out = convs[i].res
          ELSE /\ convs[i].out = Err(HttpError(convs[i].code, EmptyBody))
               /\ convs[i].resp # Nil =>
                     /\ convs[i].resp = Ok([status |-> convs[i].code, body |-> EmptyBody])
                     /\ convs[i].resp.value.body # convs[i].res.error

\* a 502 was made of an error and answered, with one line on stderr
C17_Witness ==
    /\ Len(convs) = 1
    /\ convs[1].code = 502
    /\ convs[1].res = Err("connection refused")
    /\ convs[1].resp = Ok([status |-> 502, body |-> EmptyBody])
    /\ stderr = <<"connection refused">>

\* C18: no step of a serve call, whatever its outcome and whatever other
\* calls are in flight, changes the App: its router, its pre hook, its post
\* hook and its stored state are after the step what they were before, and
\* what a handler holds is a copy of that state.
C18_ServeLeavesAppAlone ==
    [][(phase = "serving" \/ NextServe) =>
          /\ router' = router
          /\ pre' = pre
          /\ post' = post
          /\ state' = state
          /\ phase' = phase
          /\ \A c \in Calls : call'[c].hargs # Nil => call'[c].hargs.state = state]_vars

\* two calls with different outcomes have completed on an App built with
\* routes and hooks, which it still has
C18_Witness ==
    /\ \A c \in Calls : call[c].pc = "done"
    /\ \E c, d \in Calls : call[c].out # call[d].out
    /\ router # <<>>
    /\ pre = "custom"
    /\ post = "custom"
    /\ state = "S"

\* C19: when the pre hook returns a request, Router::at is called with the
\* path and method of that request, and the matched handler is invoked with
\* the address given to serve, a copy of the App's state, the head and the
\* body of that request and the ParamMap of that lookup; without a match no
\* handler is invoked.
C19_ReturnedRequestIsServed ==
    \A c \in Calls :
        (call[c].preOut # Nil /\ call[c].preOut.ok) =>
            LET req == call[c].preOut.value
            IN  /\ call[c].at = RouterAt(router, req.path, req.method)
                /\ call[c].addr = Addr(c)
                /\ IF call[c].at.ok
                   THEN /\ call[c].handler = Some(call[c].at.value.handler)
                        /\ call[c].hargs =
                              [addr |-> call[c].addr, state |-> state,
                               parts |-> [method |-> req.method, path |-> req.path],
                               body |-> req.body, params |-> call[c].at.value.params]
                   ELSE call[c].hargs = Nil /\ call[c].handler = Nil

\* a request that no route matches was rewritten by the pre hook, and the
\* handler of the rewritten path received the rewritten head and body
C19_Witness ==
    \E c \in Calls :
        /\ call[c].hargs # Nil
        /\ call[c].req.path = <<"/", "b">>
        /\ call[c].req.method = "POST"
        /\ RouterAt(router, call[c].req.path, call[c].req.method) = Err(HttpError(NOT_FOUND, EmptyBody))
        /\ call[c].preOut = Ok(Rewritten)
        /\ call[c].hargs.parts.path = PatAB
        /\ call[c].hargs.body = "rewritten"

\* C20: a serve call whose pre hook, handler and post hook complete once
\* awaited runs to its end and returns a response, whatever the other calls
\* do, one that never completes included; a call that has returned stays as
\* it is, so it returns one response.
C20_ServeCompletes ==
    /\ \A c \in Calls \ {Stalling} :
          (call[c].pc # "idle") ~> (call[c].pc = "done" /\ call[c].out # Nil)
    /\ [][\A c \in Calls : call[c].pc = "done" => call'[c] = call[c]]_vars

\* the call made first still awaits its handler while a call made after it
\* has returned
C20_Witness ==
    /\ Len(started) = MaxCalls
    /\ started[1] = Stalling
    /\ call[Stalling].pc = "handler"
    /\ call[started[2]].pc = "done"
    /\ call[started[2]].out # Nil

====
